---------------------------- MODULE Spec2Model ----------------------------
(***************************************************************************)
(* Model of the Subchassis mapper scripts.                                 *)
(*                                                                         *)
(*   Subchassis_validation.py : fuzzy_match_column and the "Map            *)
(*       Subchassis" handler joining on Style (+ optional department).     *)
(*   Subchassis_mapping.py    : the "Map Subchassis" handler joining on    *)
(*       Style, followed by filtering, summary, chart grouping and the     *)
(*       highlighted download.                                             *)
(*                                                                         *)
(* A text cell is a sequence of one-character strings; a blank cell (the   *)
(* NaN pandas reads for an empty spreadsheet cell) is the value NULL.      *)
(* A table is a record [cols |-> set of column names, rows |-> sequence    *)
(* of rows], a row being a function from the column names to cells.        *)
(* Numeric cells are not modelled: every cell is text or blank.            *)
(***************************************************************************)
EXTENDS Integers, Sequences, FiniteSets, TLC

VARIABLES
    pc,                 \* position of the script run
    \* Subchassis_validation.py
    uploaded_dynamic,   \* content of the uploaded planning sheet
    uploaded_reference, \* content of the uploaded reference sheet
    dynamic_df,         \* DataFrame parsed from uploaded_dynamic
    reference_df,       \* DataFrame parsed from uploaded_reference
    customer_col,       \* selected department column or "None"
    \* Subchassis_mapping.py
    uploaded_planning,  \* content of the uploaded planning sheet
    uploaded_sub,       \* content of the uploaded subchassis sheet
    planning_df,        \* DataFrame parsed from uploaded_planning
    sub_df,             \* DataFrame parsed from uploaded_sub
    season_col,         \* selected season column or "<None>"
    selected_customer,  \* multiselect results
    selected_department,
    selected_season,
    filtered_df,        \* merged_df after the filters
    summary,            \* total_rows, unique_styles, missing_subchassis
    chart_dim,          \* radio selection, "" when no chart is drawn
    chart,              \* groupby(chart_dim).size(): value -> Count
    \* fuzzy_match_column
    possible_names,     \* the keyword list passed in
    columns,            \* the candidate column names passed in
    matched,            \* the list returned
    \* both scripts
    merged_df,          \* result of pd.merge
    red_rows            \* sheet rows whose LatestSubChassis cell is filled red

validationVars == <<uploaded_dynamic, uploaded_reference, dynamic_df, reference_df,
                    customer_col>>

mappingVars == <<uploaded_planning, uploaded_sub, planning_df, sub_df, season_col,
                 selected_customer, selected_department, selected_season,
                 filtered_df, summary, chart_dim, chart>>

fuzzyVars == <<possible_names, columns, matched>>

vars == <<pc, validationVars, mappingVars, fuzzyVars, merged_df, red_rows>>

-----------------------------------------------------------------------------
(* Bounds *)

MaxLeft == 2
MaxRight == 2
MaxNames == 2
MaxColumns == 2

-----------------------------------------------------------------------------
(* Cells and strings *)

NULL == <<"NaN">>

IsNa(v) == v = NULL

\* str(float('nan')), what Series.astype(str) makes of a blank cell (object
\* columns, pandas before 3.0)
NanText == <<"n", "a", "n">>

AsTypeStr(v) == IF IsNa(v) THEN NanText ELSE v

IsSpace(c) == c = " "

RECURSIVE LStrip(_)
LStrip(s) ==
    IF s = <<>> THEN <<>>
    ELSE IF IsSpace(Head(s)) THEN LStrip(Tail(s))
    ELSE s

RECURSIVE RStrip(_)
RStrip(s) ==
    IF s = <<>> THEN <<>>
    ELSE IF IsSpace(s[Len(s)]) THEN RStrip(SubSeq(s, 1, Len(s) - 1))
    ELSE s

StrStrip(s) == RStrip(LStrip(s))

\* Series.astype(str).str.strip() on one cell
Clean(v) == StrStrip(AsTypeStr(v))

-----------------------------------------------------------------------------
(* DataFrame operations *)

EmptyTable == [cols |-> {}, rows |-> <<>>]

HasColumn(df, col) == col \in df.cols

\* Mutant of CleanColumn: the whole frame is converted and stripped
CleanEveryColumn(df, col) ==
    [df EXCEPT !.rows = [i \in DOMAIN df.rows |->
        [c \in df.cols |-> Clean(df.rows[i][c])]]]

\* df[col] = f(df[col]) with f = astype(str).str.strip()
CleanColumn(df, col) ==
    [df EXCEPT !.rows = [i \in DOMAIN df.rows |->
        [df.rows[i] EXCEPT ![col] = Clean(@)]]]

\* df[new] = df[src]
AssignColumn(df, new, src) ==
    [cols |-> df.cols \cup {new},
     rows |-> [i \in DOMAIN df.rows |->
        [c \in df.cols \cup {new} |->
            IF c = new THEN df.rows[i][src] ELSE df.rows[i][c]]]]

\* df['join_key'] += "_" + df[col]
AppendToJoinKey(df, col) ==
    [df EXCEPT !.rows = [i \in DOMAIN df.rows |->
        [df.rows[i] EXCEPT !["join_key"] = @ \o <<"_">> \o df.rows[i][col]]]]

\* df[cols]
Project(df, cols) ==
    [cols |-> cols,
     rows |-> [i \in DOMAIN df.rows |-> [c \in cols |-> df.rows[i][c]]]]

\* df.drop(columns=[col])
DropColumn(df, col) == Project(df, df.cols \ {col})

\* The right rows whose key equals k, in the right table's order
MatchesOf(k, right, right_on) ==
    SelectSeq(right.rows, LAMBDA r : r[right_on] = k)

\* One left row joined to one right row; the right row's columns that the
\* left row lacks are appended
JoinRow(l, r, rcols) ==
    [c \in DOMAIN l \cup rcols |-> IF c \in DOMAIN l THEN l[c] ELSE r[c]]

NullRow(rcols) == [c \in rcols |-> NULL]

RECURSIVE JoinRowAll(_, _, _)
JoinRowAll(l, rs, rcols) ==
    IF rs = <<>> THEN <<>>
    ELSE <<JoinRow(l, Head(rs), rcols)>> \o JoinRowAll(l, Tail(rs), rcols)

\* The output rows of one left row: one per matching right row, or one
\* null-extended row when no right row matches
LeftJoinRows(l, right, left_on, right_on) ==
    LET ms == MatchesOf(l[left_on], right, right_on)
    IN  IF ms = <<>> THEN <<JoinRow(l, NullRow(right.cols), right.cols)>>
        ELSE JoinRowAll(l, ms, right.cols)

RECURSIVE MergeRows(_, _, _, _)
MergeRows(lrows, right, left_on, right_on) ==
    IF lrows = <<>> THEN <<>>
    ELSE LeftJoinRows(Head(lrows), right, left_on, right_on)
         \o MergeRows(Tail(lrows), right, left_on, right_on)

\* pd.merge(left, right, left_on=..., right_on=..., how="left")
Merge(left, right, left_on, right_on) ==
    [cols |-> left.cols \cup right.cols,
     rows |-> MergeRows(left.rows, right, left_on, right_on)]

\* Mutant of Highlight: the header row is not skipped (enumerate from 1)
HighlightFromRowOne(df) ==
    {j \in DOMAIN df.rows : IsNa(df.rows[j]["LatestSubChassis"])}

\* The sheet rows (header is row 1) whose LatestSubChassis is NaN
Highlight(df) ==
    {i + 1 : i \in {j \in DOMAIN df.rows : IsNa(df.rows[j]["LatestSubChassis"])}}

-----------------------------------------------------------------------------
(* Subchassis_validation.py: the "Map Subchassis" handler *)

style_col == "Style No"

DynamicColumns == {"Style No", "Cust Dept"}

ReferenceColumns == {"Style", "Department", "LatestSubChassis"}

\* Cells of the planning sheet's style and department columns
StyleCells == {NULL, <<"a", " ">>, <<"a", "_", "b">>}

DeptCells == {<<"c">>, <<"b", "_", "c">>}

\* Cells of the reference sheet's Style, Department and LatestSubChassis
RefStyleCells == {NULL, <<"a", "_", "b", " ">>}

RefDeptCells == {<<"c", " ">>, <<"b", "_", "c">>}

SubChassisCells == {NULL, <<"S", "1">>}

SeqsUpTo(S, n) == UNION {[1..k -> S] : k \in 0..n}

CellsOf(col) ==
    CASE col = "Style No" -> StyleCells
      [] col = "Cust Dept" -> DeptCells
      [] col = "Style" -> RefStyleCells
      [] col = "Department" -> RefDeptCells
      [] col = "LatestSubChassis" -> SubChassisCells

AllCells == StyleCells \cup DeptCells \cup RefStyleCells \cup RefDeptCells
            \cup SubChassisCells

RowsOver(cols) == {r \in [cols -> AllCells] : \A c \in cols : r[c] \in CellsOf(c)}

TablesOver(cols, n) == {[cols |-> cols, rows |-> rs] : rs \in SeqsUpTo(RowsOver(cols), n)}

\* A reference sheet holds the three expected columns or lacks one of them
ReferenceLayouts == {ReferenceColumns} \cup {ReferenceColumns \ {c} : c \in ReferenceColumns}

NoSummary == [total_rows |-> 0, unique_styles |-> 0, missing_subchassis |-> 0]

NoChart == <<>>

\* The mapping script is not running
MappingIdle ==
    /\ uploaded_planning = EmptyTable
    /\ uploaded_sub = EmptyTable
    /\ planning_df = EmptyTable
    /\ sub_df = EmptyTable
    /\ season_col = "<None>"
    /\ selected_customer = {}
    /\ selected_department = {}
    /\ selected_season = {}
    /\ filtered_df = EmptyTable
    /\ summary = NoSummary
    /\ chart_dim = ""
    /\ chart = NoChart

\* fuzzy_match_column is not being called
FuzzyIdle ==
    /\ possible_names = <<>>
    /\ columns = <<>>
    /\ matched = <<>>

\* The validation script is not running
ValidationIdle ==
    /\ uploaded_dynamic = EmptyTable
    /\ uploaded_reference = EmptyTable
    /\ dynamic_df = EmptyTable
    /\ reference_df = EmptyTable
    /\ customer_col = "None"

DynamicSheets == TablesOver(DynamicColumns, MaxLeft)

ReferenceSheets == UNION {TablesOver(cs, MaxRight) : cs \in ReferenceLayouts}

InitValidation ==
    /\ pc = "loaded"
    /\ uploaded_dynamic \in DynamicSheets
    /\ uploaded_reference \in ReferenceSheets
    /\ dynamic_df = uploaded_dynamic
    /\ reference_df = uploaded_reference
    /\ customer_col \in {"Cust Dept", "None"}
    /\ merged_df = EmptyTable
    /\ red_rows = {}
    /\ MappingIdle
    /\ FuzzyIdle

\* The handler stops at the first KeyError, keeping the assignments made so far
Raise(d, r) ==
    /\ pc' = "error"
    /\ dynamic_df' = d
    /\ reference_df' = r
    /\ merged_df' = merged_df
    /\ red_rows' = red_rows

\* Lines 73-92: merge, drop join_key, write the sheet with red fills
MergeAndSave(d, r) ==
    IF ~HasColumn(r, "LatestSubChassis") THEN Raise(d, r)
    ELSE LET m == DropColumn(Merge(d, Project(r, {"join_key", "LatestSubChassis"}),
                                   "join_key", "join_key"), "join_key")
         IN  /\ pc' = "done"
             /\ dynamic_df' = d
             /\ reference_df' = r
             /\ merged_df' = m
             /\ red_rows' = Highlight(m)

\* Lines 67-71: the composite key
CompositeKey(d, r) ==
    LET d1 == CleanColumn(d, customer_col)
    IN  IF ~HasColumn(r, "Department") THEN Raise(d1, r)
        ELSE LET r1 == CleanColumn(r, "Department")
             IN  MergeAndSave(AppendToJoinKey(d1, customer_col),
                              AppendToJoinKey(r1, "Department"))

\* Lines 57-100
MapSubchassis ==
    /\ pc = "loaded"
    /\ LET d1 == CleanColumn(dynamic_df, style_col)
       IN  IF ~HasColumn(reference_df, "Style") THEN Raise(d1, reference_df)
           ELSE LET r1 == CleanColumn(reference_df, "Style")
                    d2 == AssignColumn(d1, "join_key", style_col)
                    r2 == AssignColumn(r1, "join_key", "Style")
                IN  IF customer_col # "None" THEN CompositeKey(d2, r2)
                    ELSE MergeAndSave(d2, r2)
    /\ UNCHANGED <<uploaded_dynamic, uploaded_reference, customer_col, mappingVars,
                   fuzzyVars>>

NextValidation == MapSubchassis

Spec == InitValidation /\ [][NextValidation]_vars

-----------------------------------------------------------------------------
(* Properties of the validation script's join *)

Done == pc = "done"

Finished == pc \in {"done", "error"}

\* The normalized join key of a planning row and of a reference row, from
\* the uploaded cells
LeftKey(l) ==
    IF customer_col = "None" THEN Clean(l[style_col])
    ELSE Clean(l[style_col]) \o <<"_">> \o Clean(l[customer_col])

RightKey(r) ==
    IF customer_col = "None" THEN Clean(r["Style"])
    ELSE Clean(r["Style"]) \o <<"_">> \o Clean(r["Department"])

L == uploaded_dynamic.rows

R == uploaded_reference.rows

RightKeysUnique ==
    \A i, j \in DOMAIN R : RightKey(R[i]) = RightKey(R[j]) => i = j

\* The planning row i as the handler leaves it: key cells cleaned
CleanedLeft(i) == [c \in DynamicColumns |-> dynamic_df.rows[i][c]]

\* C1: the join output has exactly as many rows as L, and they are L's rows
\* in L's order, whatever R holds (duplicate keys included).
C1_LeftRowsKept ==
    Done => /\ Len(merged_df.rows) = Len(L)
            /\ \A i \in DOMAIN L :
                   [c \in DynamicColumns |-> merged_df.rows[i][c]] = CleanedLeft(i)

\* The merged rows that carry the key k
MergedWithKey(k) == {i \in DOMAIN merged_df.rows : LeftKey(merged_df.rows[i]) = k}

\* C2: when R holds several rows with one key and different LatestSubChassis
\* values, every left row with that key appears once in the output and
\* carries the value of the first of them in R's order.
C2_FirstDuplicateWins ==
    Done =>
      \A j1, j2 \in DOMAIN R :
         (/\ j1 < j2
          /\ RightKey(R[j1]) = RightKey(R[j2])
          /\ R[j1]["LatestSubChassis"] # R[j2]["LatestSubChassis"]
          /\ \A j \in 1..(j1 - 1) : RightKey(R[j]) # RightKey(R[j1]))
         => LET k == RightKey(R[j1])
            IN  /\ Cardinality(MergedWithKey(k))
                     = Cardinality({i \in DOMAIN L : LeftKey(L[i]) = k})
                /\ \A i \in MergedWithKey(k) :
                       merged_df.rows[i]["LatestSubChassis"]
                         = R[j1]["LatestSubChassis"]

\* C3 as stated: with unique keys in R, a left row is flagged (red fill,
\* null LatestSubChassis) exactly when its key is absent from R.
C3_FlaggedIffKeyAbsent ==
    (Done /\ RightKeysUnique) =>
       /\ Len(merged_df.rows) = Len(L)
       /\ \A i \in DOMAIN L :
             (i + 1 \in red_rows)
               <=> (\A j \in DOMAIN R : RightKey(R[j]) # LeftKey(L[i]))

\* C3 amended: with unique keys in R, a left row is flagged exactly when its
\* output LatestSubChassis is null, which is when its key is absent from R
\* or the R row with that key holds a null LatestSubChassis.
C3_FlaggedIffNoSubChassis ==
    (Done /\ RightKeysUnique) =>
       /\ Len(merged_df.rows) = Len(L)
       /\ \A i \in DOMAIN L :
             /\ (i + 1 \in red_rows) <=> IsNa(merged_df.rows[i]["LatestSubChassis"])
             /\ (i + 1 \in red_rows)
                  <=> (\A j \in DOMAIN R :
                         RightKey(R[j]) = LeftKey(L[i])
                           => IsNa(R[j]["LatestSubChassis"]))
       /\ red_rows \subseteq {i + 1 : i \in DOMAIN L}

\* C3 witness: unique keys in R; one left row is flagged although its key is
\* in R (null attribute), one is flagged for an absent key or left unflagged
C3_Witness ==
    /\ Done /\ RightKeysUnique /\ Len(L) = 2 /\ Len(R) = 2
    /\ \E j \in DOMAIN R : RightKey(R[j]) = LeftKey(L[1])
                             /\ IsNa(R[j]["LatestSubChassis"])
    /\ \E j \in DOMAIN R : RightKey(R[j]) = LeftKey(L[2])
                             /\ ~IsNa(R[j]["LatestSubChassis"])
    /\ red_rows = {2}

\* C4: a left row whose key cell is blank never matches: every output row
\* made from it (its cleaned style is the text nan or empty) has a null
\* LatestSubChassis and is flagged.
C4_BlankKeyNeverMatches ==
    Done =>
      \A i \in DOMAIN merged_df.rows :
         merged_df.rows[i][style_col] \in {NanText, <<>>}
           => /\ IsNa(merged_df.rows[i]["LatestSubChassis"])
              /\ i + 1 \in red_rows

\* C5 as stated: after a run, successful or failed, both input tables have
\* the columns and cells they had before it.
C5_InputsUntouched ==
    Finished => /\ dynamic_df = uploaded_dynamic
                /\ reference_df = uploaded_reference

KeyColumns == {style_col, customer_col, "Style", "Department"}

FrameOf(df, orig) ==
    /\ df.cols \in {orig.cols, orig.cols \cup {"join_key"}}
    /\ Len(df.rows) = Len(orig.rows)
    /\ \A i \in DOMAIN orig.rows : \A c \in orig.cols :
          IF c \in KeyColumns
          THEN df.rows[i][c] \in {orig.rows[i][c], Clean(orig.rows[i][c])}
          ELSE df.rows[i][c] = orig.rows[i][c]

\* C5 amended: a run, successful or failed, changes its inputs only in the
\* key columns (a cell there keeps its value or gets its normalized text)
\* and by adding a join_key column; rows, their order and every other cell
\* (LatestSubChassis included) are as before.
C5_OnlyKeyColumnsChange ==
    Finished => /\ FrameOf(dynamic_df, uploaded_dynamic)
                /\ FrameOf(reference_df, uploaded_reference)

\* C5 witness: a failed run (no Department column) that has already
\* rewritten a padded style cell and added join_key, and a reference row
\* with a null LatestSubChassis left as it was
C5_Witness ==
    /\ pc = "error"
    /\ "Department" \notin uploaded_reference.cols
    /\ dynamic_df # uploaded_dynamic
    /\ "join_key" \in reference_df.cols
    /\ \E i \in DOMAIN R : IsNa(reference_df.rows[i]["LatestSubChassis"])

\* C9: with a composite key, rows whose (style, department) pairs differ
\* never get the same join key.
C9_CompositeKeyInjective ==
    (Done /\ customer_col # "None") =>
       \A i \in DOMAIN dynamic_df.rows : \A j \in DOMAIN reference_df.rows :
          dynamic_df.rows[i]["join_key"] = reference_df.rows[j]["join_key"]
            => /\ dynamic_df.rows[i][style_col] = reference_df.rows[j]["Style"]
               /\ dynamic_df.rows[i][customer_col] = reference_df.rows[j]["Department"]

-----------------------------------------------------------------------------
(* Subchassis_mapping.py: the "Map Subchassis" handler with filters *)

style_col_plan == "Plan Style"

style_col_sub == "Style Code"

mapping_customer_col == "Customer"

dept_col == "Dept"

PlanStyleCells == {<<"a", " ">>, <<"z">>}

SubStyleCells == {<<"a">>}

CustomerCells == {<<"X">>, <<"Y">>}

SubDeptCells == {NULL, <<"M">>}

SeasonCells == {<<"W">>}

MappingCellsOf(col) ==
    CASE col = "Plan Style" -> PlanStyleCells
      [] col = "Style Code" -> SubStyleCells
      [] col = "Customer" -> CustomerCells
      [] col = "Dept" -> SubDeptCells
      [] col = "Season" -> SeasonCells
      [] col = "LatestSubChassis" -> SubChassisCells

MappingCells == PlanStyleCells \cup SubStyleCells \cup CustomerCells
                \cup SubDeptCells \cup SeasonCells \cup SubChassisCells

MappingRowsOver(cols) ==
    {r \in [cols -> MappingCells] : \A c \in cols : r[c] \in MappingCellsOf(c)}

MappingTablesOver(cols, n) ==
    {[cols |-> cols, rows |-> rs] : rs \in SeqsUpTo(MappingRowsOver(cols), n)}

SubColumns == {"Style Code", "LatestSubChassis", "Customer", "Dept", "Season"}

\* A subchassis sheet with all columns, without a season column, or without
\* the LatestSubChassis column
SubLayouts == {SubColumns, SubColumns \ {"Season"}, SubColumns \ {"LatestSubChassis"}}

PlanningSheets == MappingTablesOver({style_col_plan}, MaxLeft)

SubSheets == UNION {MappingTablesOver(cs, MaxRight) : cs \in SubLayouts}

InitMapping ==
    /\ pc = "loaded"
    /\ uploaded_planning \in PlanningSheets
    /\ uploaded_sub \in SubSheets
    /\ planning_df = uploaded_planning
    /\ sub_df = uploaded_sub
    /\ season_col = IF "Season" \in uploaded_sub.cols THEN "Season" ELSE "<None>"
    /\ selected_customer = {}
    /\ selected_department = {}
    /\ selected_season = {}
    /\ filtered_df = EmptyTable
    /\ summary = NoSummary
    /\ chart_dim = ""
    /\ chart = NoChart
    /\ merged_df = EmptyTable
    /\ red_rows = {}
    /\ ValidationIdle
    /\ FuzzyIdle

\* Mutant of Options: no dropna()
OptionsWithNa(df, col) == {df.rows[i][col] : i \in DOMAIN df.rows}

\* df[col].dropna().unique().tolist()
Options(df, col) ==
    {df.rows[i][col] : i \in DOMAIN df.rows} \ {NULL}

\* df[df[col].isin(selected)]
FilterIsin(df, col, selected) ==
    [df EXCEPT !.rows = SelectSeq(df.rows, LAMBDA r : r[col] \in selected)]

\* Mutant of ApplyFilters: the filters are applied without testing that
\* their selection is not empty
ApplyFiltersUnguarded(df, sel_customer, sel_department, sel_season) ==
    LET f1 == [df EXCEPT !.rows =
                  SelectSeq(df.rows, LAMBDA r : r["Customer"] \in sel_customer)]
        f2 == [f1 EXCEPT !.rows =
                  SelectSeq(f1.rows, LAMBDA r : r["Dept"] \in sel_department)]
    IN  IF season_col # "<None>"
        THEN [f2 EXCEPT !.rows =
                  SelectSeq(f2.rows, LAMBDA r : r[season_col] \in sel_season)]
        ELSE f2

\* Lines 93-99
ApplyFilters(df, sel_customer, sel_department, sel_season) ==
    LET f1 == IF sel_customer # {}
              THEN FilterIsin(df, mapping_customer_col, sel_customer) ELSE df
        f2 == IF sel_department # {}
              THEN FilterIsin(f1, dept_col, sel_department) ELSE f1
    IN  IF sel_season # {} /\ season_col # "<None>"
        THEN FilterIsin(f2, season_col, sel_season) ELSE f2

\* Series.nunique(): distinct non-null values
NUnique(df, col) == Cardinality({df.rows[i][col] : i \in DOMAIN df.rows} \ {NULL})

\* Series.isna().sum()
IsNaSum(df, col) == Cardinality({i \in DOMAIN df.rows : IsNa(df.rows[i][col])})

\* Lines 102-104
Summary(df) ==
    [total_rows |-> Len(df.rows),
     unique_styles |-> NUnique(df, style_col_plan),
     missing_subchassis |-> IsNaSum(df, "LatestSubChassis")]

RECURSIVE GroupCount(_, _, _)
GroupCount(rows, col, acc) ==
    IF rows = <<>> THEN acc
    ELSE LET v == Head(rows)[col]
         IN  GroupCount(Tail(rows), col,
                 IF IsNa(v) THEN acc
                 ELSE IF v \in DOMAIN acc THEN [acc EXCEPT ![v] = @ + 1]
                 ELSE acc @@ (v :> 1))

\* Mutant of GroupBySize: groupby(col, dropna=False)
GroupBySizeKeepNa(df, col) ==
    LET vals == {df.rows[i][col] : i \in DOMAIN df.rows}
    IN  [v \in vals |-> Cardinality({i \in DOMAIN df.rows : df.rows[i][col] = v})]

\* df.groupby(col).size(): null group keys are dropped (dropna=True)
GroupBySize(df, col) == GroupCount(df.rows, col, <<>>)

\* Line 116: the radio's choices
ChartDims == {mapping_customer_col, dept_col}
             \cup (IF season_col # "<None>" THEN {season_col} ELSE {})

\* Lines 67-69
merge_cols == {style_col_sub, "LatestSubChassis", mapping_customer_col, dept_col}
              \cup (IF season_col # "<None>" THEN {season_col} ELSE {})

\* Lines 60-151
MapAndFilter ==
    /\ pc = "loaded"
    /\ \E p1 \in {CleanColumn(planning_df, style_col_plan)},
          s1 \in {CleanColumn(sub_df, style_col_sub)} :
           /\ planning_df' = p1
           /\ sub_df' = s1
           /\ IF ~(merge_cols \subseteq s1.cols)
              THEN /\ pc' = "error"
                   /\ UNCHANGED <<selected_customer, selected_department,
                                  selected_season, filtered_df, summary, chart_dim,
                                  chart, merged_df, red_rows>>
              ELSE \E m \in {DropColumn(Merge(p1, Project(s1, merge_cols),
                                             style_col_plan, style_col_sub),
                                       style_col_sub)} :
                   LET cust_options == Options(s1, mapping_customer_col)
                       dept_options == Options(s1, dept_col)
                       season_options == IF season_col # "<None>"
                                         THEN Options(s1, season_col) ELSE {}
                   IN  \E sc \in SUBSET cust_options, sd \in SUBSET dept_options,
                          ss \in SUBSET season_options :
                         \E f \in {ApplyFilters(m, sc, sd, ss)} :
                             /\ pc' = "done"
                             /\ merged_df' = m
                             /\ selected_customer' = sc
                             /\ selected_department' = sd
                             /\ selected_season' = ss
                             /\ filtered_df' = f
                             /\ summary' = Summary(f)
                             /\ IF Len(f.rows) > 0
                                THEN \E dim \in ChartDims :
                                        /\ chart_dim' = dim
                                        /\ chart' = GroupBySize(f, dim)
                                ELSE /\ chart_dim' = ""
                                     /\ chart' = NoChart
                             /\ red_rows' = Highlight(f)
    /\ UNCHANGED <<uploaded_planning, uploaded_sub, season_col, validationVars,
                   fuzzyVars>>

NextMapping == MapAndFilter

SpecMapping == InitMapping /\ [][NextMapping]_vars

-----------------------------------------------------------------------------
(* difflib, as fuzzy_match_column uses it *)

\* ord(c) of the characters the keyword and column pools use
Ord(c) ==
    CASE c = " " -> 32
      [] c = "#" -> 35
      [] c = "A" -> 65
      [] c = "B" -> 66
      [] c = "C" -> 67
      [] c = "D" -> 68
      [] c = "N" -> 78
      [] c = "O" -> 79
      [] c = "S" -> 83
      [] c = "a" -> 97
      [] c = "b" -> 98
      [] c = "c" -> 99
      [] c = "d" -> 100
      [] c = "e" -> 101
      [] c = "f" -> 102
      [] c = "g" -> 103
      [] c = "i" -> 105
      [] c = "l" -> 108
      [] c = "m" -> 109
      [] c = "n" -> 110
      [] c = "o" -> 111
      [] c = "p" -> 112
      [] c = "r" -> 114
      [] c = "s" -> 115
      [] c = "t" -> 116
      [] c = "u" -> 117
      [] c = "y" -> 121

\* Python's str < str: by code point, a proper prefix first
RECURSIVE StrLess(_, _)
StrLess(x, y) ==
    IF y = <<>> THEN FALSE
    ELSE IF x = <<>> THEN TRUE
    ELSE IF Head(x) = Head(y) THEN StrLess(Tail(x), Tail(y))
    ELSE Ord(Head(x)) < Ord(Head(y))

\* Length of the common run of a from i and b from j, inside a[..ahi], b[..bhi]
RECURSIVE CommonRun(_, _, _, _, _, _)
CommonRun(a, b, i, j, ahi, bhi) ==
    IF i > ahi \/ j > bhi THEN 0
    ELSE IF a[i] # b[j] THEN 0
    ELSE 1 + CommonRun(a, b, i + 1, j + 1, ahi, bhi)

\* SequenceMatcher.find_longest_match on a[alo..ahi], b[blo..bhi]: the longest
\* block, the earliest in a among the longest, then the earliest in b
FindLongestMatch(a, b, alo, ahi, blo, bhi) ==
    LET blocks == {[i |-> i, j |-> j, k |-> CommonRun(a, b, i, j, ahi, bhi)] :
                      i \in alo..ahi, j \in blo..bhi}
        Before(p, q) == \/ p.k > q.k
                        \/ p.k = q.k /\ p.i < q.i
                        \/ p.k = q.k /\ p.i = q.i /\ p.j <= q.j
    IN  CHOOSE p \in blocks : \A q \in blocks : Before(p, q)

\* Total size of SequenceMatcher.get_matching_blocks on the two ranges
RECURSIVE MatchingSize(_, _, _, _, _, _)
MatchingSize(a, b, alo, ahi, blo, bhi) ==
    IF alo > ahi \/ blo > bhi THEN 0
    ELSE LET m == FindLongestMatch(a, b, alo, ahi, blo, bhi)
         IN  IF m.k = 0 THEN 0
             ELSE m.k + MatchingSize(a, b, alo, m.i - 1, blo, m.j - 1)
                      + MatchingSize(a, b, m.i + m.k, ahi, m.j + m.k, bhi)

Count(x, c) == Cardinality({i \in DOMAIN x : x[i] = c})

Min(m, n) == IF m < n THEN m ELSE n

RECURSIVE SumOver(_, _, _, _)
SumOver(S, a, b, acc) ==
    IF S = {} THEN acc
    ELSE LET c == CHOOSE c \in S : TRUE
         IN  SumOver(S \ {c}, a, b, acc + Min(Count(a, c), Count(b, c)))

\* A ratio 2.0 * matches / length is kept as the pair <<2 * matches, length>>;
\* _calculate_ratio returns 1.0 for two empty strings
CalculateRatio(matches, length) ==
    IF length = 0 THEN <<1, 1>> ELSE <<2 * matches, length>>

Ratio(a, b) ==
    CalculateRatio(MatchingSize(a, b, 1, Len(a), 1, Len(b)), Len(a) + Len(b))

QuickRatio(a, b) ==
    CalculateRatio(SumOver({a[i] : i \in DOMAIN a}, a, b, 0), Len(a) + Len(b))

RealQuickRatio(a, b) ==
    CalculateRatio(Min(Len(a), Len(b)), Len(a) + Len(b))

\* cutoff=0.6 as CutoffNum / CutoffDen
CutoffNum == 6
CutoffDen == 10

AtLeastCutoff(r) == r[1] * CutoffDen >= CutoffNum * r[2]

RatioLess(r, q) == r[1] * q[2] < q[1] * r[2]

\* (score, x) < (score2, y) as Python compares the tuples
ScoredLess(r, x, q, y) == RatioLess(r, q) \/ (~RatioLess(q, r) /\ StrLess(x, y))

\* The candidates get_close_matches keeps: those passing the three tests
RECURSIVE CloseEnough(_, _)
CloseEnough(word, possibilities) ==
    IF possibilities = <<>> THEN <<>>
    ELSE LET x == Head(possibilities)
             rest == CloseEnough(word, Tail(possibilities))
         IN  IF /\ AtLeastCutoff(RealQuickRatio(x, word))
                /\ AtLeastCutoff(QuickRatio(x, word))
                /\ AtLeastCutoff(Ratio(x, word))
             THEN <<x>> \o rest ELSE rest

\* max() of the kept (score, x) pairs, the first of equal ones
RECURSIVE Largest(_, _, _)
Largest(word, kept, best) ==
    IF kept = <<>> THEN best
    ELSE Largest(word, Tail(kept),
             IF ScoredLess(Ratio(best, word), best, Ratio(Head(kept), word), Head(kept))
             THEN Head(kept) ELSE best)

\* Mutant of GetCloseMatches: the cutoff is not applied
GetCloseMatchesAnyScore(word, possibilities) ==
    IF possibilities = <<>> THEN <<>>
    ELSE <<Largest(word, Tail(possibilities), Head(possibilities))>>

\* difflib.get_close_matches(word, possibilities, n=1, cutoff=0.6)
GetCloseMatches(word, possibilities) ==
    LET kept == CloseEnough(word, possibilities)
    IN  IF kept = <<>> THEN <<>> ELSE <<Largest(word, Tail(kept), Head(kept))>>

\* Lines 26-30: the dict matches, name -> best column
RECURSIVE MatchesDict(_, _, _)
MatchesDict(names, cols, matches) ==
    IF names = <<>> THEN matches
    ELSE LET name == Head(names)
             match == GetCloseMatches(name, cols)
         IN  MatchesDict(Tail(names), cols,
                 IF match # <<>>
                 THEN [n \in DOMAIN matches \cup {name} |->
                          IF n = name THEN match[1] ELSE matches[n]]
                 ELSE matches)

\* The lists that hold each element of S once: list(set(...)) in any of the
\* orders the set's iteration can take
ListsOf(S) ==
    {l \in [1..Cardinality(S) -> S] : \A i, j \in 1..Cardinality(S) : l[i] = l[j] => i = j}

\* Line 31: the lists fuzzy_match_column can return
fuzzy_match_column(names, cols) ==
    LET matches == MatchesDict(names, cols, <<>>)
    IN  ListsOf({matches[n] : n \in DOMAIN matches})

\* Lines 48-49
style_keywords ==
    <<<<"S", "t", "y", "l", "e">>,
      <<"S", "t", "y", "l", "e", " ", "#">>,
      <<"S", "t", "y", "l", "e", " ", "N", "o">>,
      <<"S", "t", "y", "l", "e", " ", "n", "u", "m", "b", "e", "r">>>>

customer_keywords ==
    <<<<"C", "u", "s", "t", "o", "m", "e", "r", " ", "D", "e", "p", "a", "r", "t", "m", "e", "n", "t">>,
      <<"D", "e", "p", "a", "r", "t", "m", "e", "n", "t">>,
      <<"B", "u", "y", "i", "n", "g", " ", "O", "f", "f", "i", "c", "e">>,
      <<"C", "u", "s", "t", "o", "m", "e", "r">>>>

\* The keywords and the candidate column names the calls are drawn from
KeywordPool == {style_keywords[1], style_keywords[2],
                customer_keywords[2], customer_keywords[4]}

ColumnPool == {<<"S", "t", "y", "l", "e", " ", "C", "o", "d", "e">>,
               <<"C", "o", "l", "o", "r">>,
               <<"S", "t", "y", "l", "e", " ", "A">>,
               <<"S", "t", "y", "l", "e", " ", "B">>,
               <<"C", "u", "s", "t", "o", "m", "e", "r", " ", "D", "e", "p", "t">>}

KeywordLists == SeqsUpTo(KeywordPool, MaxNames)

ColumnLists == {l \in SeqsUpTo(ColumnPool, MaxColumns) :
                   \A i, j \in DOMAIN l : l[i] = l[j] => i = j}

InitFuzzy ==
    /\ pc = "ready"
    /\ possible_names \in KeywordLists
    /\ columns \in ColumnLists
    /\ matched = <<>>
    /\ merged_df = EmptyTable
    /\ red_rows = {}
    /\ ValidationIdle
    /\ MappingIdle

\* Lines 51-52: one call of fuzzy_match_column
CallFuzzyMatch ==
    /\ pc = "ready"
    /\ matched' \in fuzzy_match_column(possible_names, columns)
    /\ pc' = "returned"
    /\ UNCHANGED <<possible_names, columns, validationVars, mappingVars,
                   merged_df, red_rows>>

NextFuzzy == CallFuzzyMatch

SpecFuzzy == InitFuzzy /\ [][NextFuzzy]_vars

-----------------------------------------------------------------------------
(* Properties of the mapping script's filters and chart *)

M == merged_df.rows

F == filtered_df.rows

\* A merged row passes every filter whose selection is not empty
Passes(r) ==
    /\ selected_customer # {} => r[mapping_customer_col] \in selected_customer
    /\ selected_department # {} => r[dept_col] \in selected_department
    /\ selected_season # {} => r[season_col] \in selected_season

KeptRows == {i \in DOMAIN M : Passes(M[i])}

\* The k-th kept row of merged_df, counting in merged_df's order
KthKept(k) == CHOOSE i \in KeptRows : Cardinality({j \in KeptRows : j <= i}) = k

NoFilter == selected_customer = {} /\ selected_department = {} /\ selected_season = {}

\* C6: the filtered table holds exactly the merged rows that pass every
\* non-empty filter, in their original order; with no selection at all it
\* is the merged table.
C6_FilterIsConjunction ==
    Done => /\ filtered_df.cols = merged_df.cols
            /\ Len(F) = Cardinality(KeptRows)
            /\ \A k \in DOMAIN F : F[k] = M[KthKept(k)]
            /\ NoFilter => filtered_df = merged_df

\* C6 witness: customer and department filters both set, a row that passes
\* the customer filter and fails the department filter, two rows kept
C6_Witness ==
    /\ Done
    /\ selected_customer # {} /\ selected_department # {}
    /\ \E i \in DOMAIN M : /\ M[i][mapping_customer_col] \in selected_customer
                             /\ M[i][dept_col] \notin selected_department
    /\ Len(F) = 2
    /\ Len(M) = 4

RECURSIVE SumCounts(_, _)
SumCounts(f, S) ==
    IF S = {} THEN 0
    ELSE LET v == CHOOSE v \in S : TRUE
         IN  f[v] + SumCounts(f, S \ {v})

ChartDrawn == Done /\ chart_dim # ""

\* C7 as stated: the grouped counts cover every filtered row, rows with a
\* null value being counted under their own category, so the counts sum to
\* the filtered table's row count.
C7_CountsCoverAllRows ==
    ChartDrawn => SumCounts(chart, DOMAIN chart) = Len(F)

\* C7 amended: the grouped table has one (value, count) entry per distinct
\* non-null value of the column; rows whose value is null are left out, so
\* the counts sum to the number of filtered rows with a non-null value.
C7_CountsCoverNonNullRows ==
    ChartDrawn =>
       /\ DOMAIN chart = {F[i][chart_dim] : i \in DOMAIN F} \ {NULL}
       /\ \A v \in DOMAIN chart :
             chart[v] = Cardinality({i \in DOMAIN F : F[i][chart_dim] = v})
       /\ SumCounts(chart, DOMAIN chart)
             = Cardinality({i \in DOMAIN F : ~IsNa(F[i][chart_dim])})

\* C7 witness: a chart over three rows, two of one value and one null
C7_Witness ==
    /\ ChartDrawn
    /\ Len(F) = 3
    /\ \E i \in DOMAIN F : IsNa(F[i][chart_dim])
    /\ \E v \in DOMAIN chart : chart[v] = 2

\* A merged row whose style is a style of the subchassis sheet
Matched(r) ==
    \E j \in DOMAIN uploaded_sub.rows :
       Clean(uploaded_sub.rows[j][style_col_sub]) = r[style_col_plan]

\* C10: when some filter selection is not empty, every row of the filtered
\* output is a row whose style was found in the subchassis sheet.
C10_FiltersDropUnmatched ==
    (Done /\ ~NoFilter) => \A k \in DOMAIN F : Matched(F[k])

\* C10 witness: a filter is set, merged_df holds an unmatched row and the
\* filtered output holds a row
C10_Witness ==
    /\ Done /\ ~NoFilter
    /\ \E i \in DOMAIN M : ~Matched(M[i])
    /\ Len(F) > 0

-----------------------------------------------------------------------------
(* Properties of fuzzy_match_column *)

Returned == pc = "returned"

RangeOf(l) == {l[i] : i \in DOMAIN l}

\* c is the best match of name among the candidates: its similarity is at
\* least the cutoff and no other candidate has a greater (similarity, name)
BestMatch(name, c) ==
    /\ AtLeastCutoff(Ratio(c, name))
    /\ \A d \in RangeOf(columns) :
          ~ScoredLess(Ratio(c, name), c, Ratio(d, name), d)

\* C8: the returned list has no duplicates, holds only candidates, and
\* holds a candidate exactly when it is the best match, at similarity 0.6
\* or more, of some name; Style, Style # against Style Code, Color gives
\* Style Code alone.
C8_SuggestsBestMatches ==
    Returned =>
       /\ \A i, j \in DOMAIN matched : matched[i] = matched[j] => i = j
       /\ RangeOf(matched) \subseteq RangeOf(columns)
       /\ \A c \in RangeOf(columns) :
             c \in RangeOf(matched)
               <=> \E n \in RangeOf(possible_names) : BestMatch(n, c)
       /\ (/\ possible_names = <<<<"S", "t", "y", "l", "e">>, <<"S", "t", "y", "l", "e", " ", "#">>>>
           /\ columns = <<<<"S", "t", "y", "l", "e", " ", "C", "o", "d", "e">>, <<"C", "o", "l", "o", "r">>>>)
             => matched = <<<<"S", "t", "y", "l", "e", " ", "C", "o", "d", "e">>>>

\* C8 witness: the call of the scenario has returned Style Code alone
C8_Witness ==
    /\ Returned
    /\ possible_names = <<<<"S", "t", "y", "l", "e">>, <<"S", "t", "y", "l", "e", " ", "#">>>>
    /\ columns = <<<<"S", "t", "y", "l", "e", " ", "C", "o", "d", "e">>, <<"C", "o", "l", "o", "r">>>>
    /\ matched = <<<<"S", "t", "y", "l", "e", " ", "C", "o", "d", "e">>>>

=============================================================================
